---- MODULE Spec2Model ----
(***************************************************************************)
(* Model of the asset-generation-and-assembly pipeline of ai-video-maker:  *)
(* the "Generate Assets & Assemble Video" handler of app.py (task          *)
(* construction, ThreadPoolExecutor dispatch, join, assembly, presentation)*)
(* and the fetchers and the assembler of video_maker_lib.py.               *)
(*                                                                         *)
(* Three specifications share the variables:                               *)
(*   Spec          the generate handler, run and re-run on one shot list   *)
(*   SpecAssemble  assemble_video's scene selection over arbitrary files   *)
(*   SpecTimeline  assemble_video's cross-fade timeline over durations     *)
(***************************************************************************)
EXTENDS Integers, Sequences, FiniteSets

\* ------------------------------------------------------------- bounds

\* Longest shot list of Spec, and the largest scene_number in it.
MaxScenes == 2
\* Longest shot list of SpecAssemble, and the largest scene_number in it.
MaxShots == 3
\* Longest clip list, longest audio duration and transition of SpecTimeline.
MaxClips == 3
MaxDur == 3
MaxTransition == 3

\* ThreadPoolExecutor(max_workers=5)
MaxWorkers == 5

\* ------------------------------------------------------------- data

VisualTypes == {"video", "image", "stock_footage", "other"}

Fetchers == {"generate_audio", "generate_image", "download_stock_video",
             "generate_video"}

\* A scene as the fetchers, the dispatcher and the assembler read it;
\* "other" stands for any visual_type outside the three named ones
\* (a missing cell of the edited table included).
SceneOf(n, vt) == [scene_number |-> n, visual_type |-> vt]

Scenes(maxNum) == {SceneOf(n, vt) : n \in 1..maxNum, vt \in VisualTypes}

RECURSIVE SeqsUpTo(_, _)
SeqsUpTo(S, n) ==
    IF n = 0 THEN {<<>>}
    ELSE LET shorter == SeqsUpTo(S, n - 1)
         IN  shorter \cup {Append(s, x) : s \in {q \in shorter : Len(q) = n - 1}, x \in S}

UniqueSceneNumbers(sl) ==
    \A i, j \in 1..Len(sl) : sl[i].scene_number = sl[j].scene_number => i = j

\* A video path that leaves the scene number out of the file name.
VideoPathFixed(n) == [dir |-> "visual_assets", num |-> 1, ext |-> "mp4"]

\* f"audio_clips/scene_{scene_num}.mp3" and the two visual paths: a path is
\* its directory, the scene number formatted into the name, and the suffix.
AudioPath(n) == [dir |-> "audio_clips", num |-> n, ext |-> "mp3"]
ImagePath(n) == [dir |-> "visual_assets", num |-> n, ext |-> "png"]
VideoPath(n) == [dir |-> "visual_assets", num |-> n, ext |-> "mp4"]

PathsUpTo(maxNum) ==
    {AudioPath(n) : n \in 1..maxNum} \cup {ImagePath(n) : n \in 1..maxNum}
        \cup {VideoPath(n) : n \in 1..maxNum}

\* A file is absent, present with all its bytes, or present with only part
\* of them (opened for writing and never completed).
FileStates == {"absent", "partial", "complete"}

\* An existence check that never finds the file.
PathExistsNever(files, p) == FALSE

\* os.path.exists(path)
PathExists(files, p) == files[p] # "absent"

\* ------------------------------------------------------------- state

VARIABLES
    shot_list,      \* edited_shot_list: the scenes, in table order
    files,          \* audio_clips/ and visual_assets/: path -> FileStates
    final_video,    \* final_video_output.mp4: a FileStates
    tasks,          \* future_tasks: one record per submitted task
    main_pc,        \* where the generate handler is
    rerun,          \* the handler has run before on this shot list
    scene_clips,    \* assemble_video's scene_clips
    assembled,      \* assemble_video wrote the output file in this run
    presented,      \* st.video showed a file in this run
    transition,     \* TRANSITION_DURATION
    durations,      \* the duration of each scene clip, in order
    final_clips,    \* final_clips_with_transitions: [start, end] per clip
    video_duration  \* video_with_transitions.duration, -1 before composing

vars == <<shot_list, files, final_video, tasks, main_pc, rerun, scene_clips,
          assembled, presented, transition, durations, final_clips,
          video_duration>>

timelineVars == <<transition, durations, final_clips, video_duration>>

\* ------------------------------------------------------------- dispatch

\* A dispatch that lacks the stock_footage branch.
VisualFetcherNoStock(vt) ==
    IF vt = "image" THEN "generate_image" ELSE "generate_video"

\* app.py 81-87: the fetcher the dispatcher submits for a visual_type.
VisualFetcher(vt) ==
    IF vt = "image" THEN "generate_image"
    ELSE IF vt = "stock_footage" THEN "download_stock_video"
    ELSE "generate_video"

\* A submitted future: its fetcher, its scene (an index of the shot list),
\* where the worker is in it, and how it ended.
\*   found   the target file existed at the fetcher's existence check
\*   called  the fetcher made a remote API call
\*   wrote   the fetcher opened its target file for writing
\*   status  the status code the last poll was answered with (0: no answer)
NewTask(fn, i) ==
    [fn |-> fn, scene |-> i, pc |-> "queued", outcome |-> "pending",
     found |-> FALSE, called |-> FALSE, wrote |-> FALSE, status |-> 0]

\* app.py 78-87: an audio task, then the visual task, for each scene in order.
RECURSIVE BuildTasks(_, _)
BuildTasks(sl, i) ==
    IF i > Len(sl) THEN <<>>
    ELSE <<NewTask("generate_audio", i),
           NewTask(VisualFetcher(sl[i].visual_type), i)>> \o BuildTasks(sl, i + 1)

\* The output_path each fetcher computes from scene_data['scene_number'].
TargetPathOf(fn, n) ==
    IF fn = "generate_audio" THEN AudioPath(n)
    ELSE IF fn = "generate_image" THEN ImagePath(n)
    ELSE VideoPath(n)

TargetPath(t) == TargetPathOf(tasks[t].fn, shot_list[tasks[t].scene].scene_number)

TaskIds == 1..Len(tasks)

\* A worker thread of the pool is executing the task.
Running(t) == tasks[t].pc \in {"fetching", "polling", "writing"}

RunningCount == Cardinality({t \in TaskIds : Running(t)})

\* The "Generate Assets & Assemble Video" click: app.py 71-87.  A click after
\* an earlier run is a re-run on the same shot list and the same directories.
Generate ==
    /\ main_pc \in {"idle", "done", "error"}
    /\ tasks' = BuildTasks(shot_list, 1)
    /\ main_pc' = "dispatch"
    /\ rerun' = (main_pc # "idle")
    /\ scene_clips' = <<>>
    /\ assembled' = FALSE
    /\ presented' = FALSE
    /\ UNCHANGED <<shot_list, files, final_video, timelineVars>>

\* ------------------------------------------------------------- fetchers

\* The status codes a poll of the video-result endpoint is answered with:
\* ready, still processing, a 3xx handed to the caller (a redirect response
\* without a Location, which requests does not follow) and an error.
PollStatuses == {200, 202, 300, 404}

\* requests.Response.raise_for_status: raises HTTPError for 4xx and 5xx only.
RaisesForStatus(s) == (400 <= s /\ s < 500) \/ (500 <= s /\ s < 600)

\* The fetcher returns normally with `o` as the way it ended.
TasksAfterReturn(ts, t, o) == [ts EXCEPT ![t].pc = "done", ![t].outcome = o]

\* "except Exception as e: print(...)": the fetcher's own failure is logged
\* and the fetcher returns; no other task is touched.
TasksAfterFailure(ts, t) == TasksAfterReturn(ts, t, "failed")

\* A worker of the pool takes a queued task and the fetcher makes its
\* existence check (lines 59, 75, 93, 115): an existing target ends the call.
StartTask(t) ==
    /\ main_pc = "dispatch"
    /\ tasks[t].pc = "queued"
    /\ RunningCount < MaxWorkers
    /\ LET existed == files[TargetPath(t)] # "absent"
           ts == [tasks EXCEPT ![t].found = existed]
       IN  IF PathExists(files, TargetPath(t))
           THEN tasks' = TasksAfterReturn(ts, t, "skipped")
           ELSE tasks' = [ts EXCEPT ![t].pc = "fetching"]
    /\ UNCHANGED <<shot_list, files, final_video, main_pc, rerun, scene_clips,
                   assembled, presented, timelineVars>>

\* open(output_path, "wb"): the file is created (or truncated) empty.
OpenForWrite(t) ==
    /\ files' = [files EXCEPT ![TargetPath(t)] = "partial"]
    /\ tasks' = [tasks EXCEPT ![t].pc = "writing", ![t].called = TRUE,
                              ![t].wrote = TRUE]

\* generate_audio 61: ElevenLabs(api_key=...) is outside the try block; what
\* it raises leaves the fetcher and is stored in the task's future.
AudioClientRaises(t) ==
    /\ tasks[t].pc = "fetching" /\ tasks[t].fn = "generate_audio"
    /\ tasks' = TasksAfterReturn(tasks, t, "raised")
    /\ UNCHANGED <<shot_list, files, final_video, main_pc, rerun, scene_clips,
                   assembled, presented, timelineVars>>

\* generate_audio 63: client.generate raises before the file is opened.
AudioRequestFails(t) ==
    /\ tasks[t].pc = "fetching" /\ tasks[t].fn = "generate_audio"
    /\ tasks' = TasksAfterFailure([tasks EXCEPT ![t].called = TRUE], t)
    /\ UNCHANGED <<shot_list, files, final_video, main_pc, rerun, scene_clips,
                   assembled, presented, timelineVars>>

\* generate_audio 63-64: the stream is returned and the file opened.
AudioOpen(t) ==
    /\ tasks[t].pc = "fetching" /\ tasks[t].fn = "generate_audio"
    /\ OpenForWrite(t)
    /\ UNCHANGED <<shot_list, final_video, main_pc, rerun, scene_clips,
                   assembled, presented, timelineVars>>

\* generate_image 78-83: the request raises, or raise_for_status does.
ImageRequestFails(t) ==
    /\ tasks[t].pc = "fetching" /\ tasks[t].fn = "generate_image"
    /\ tasks' = TasksAfterFailure([tasks EXCEPT ![t].called = TRUE], t)
    /\ UNCHANGED <<shot_list, files, final_video, main_pc, rerun, scene_clips,
                   assembled, presented, timelineVars>>

\* generate_image 78-84: the image is received and the file opened.
ImageOpen(t) ==
    /\ tasks[t].pc = "fetching" /\ tasks[t].fn = "generate_image"
    /\ OpenForWrite(t)
    /\ UNCHANGED <<shot_list, final_video, main_pc, rerun, scene_clips,
                   assembled, presented, timelineVars>>

\* download_stock_video 96-105: the search or the download raises.
StockRequestFails(t) ==
    /\ tasks[t].pc = "fetching" /\ tasks[t].fn = "download_stock_video"
    /\ tasks' = TasksAfterFailure([tasks EXCEPT ![t].called = TRUE], t)
    /\ UNCHANGED <<shot_list, files, final_video, main_pc, rerun, scene_clips,
                   assembled, presented, timelineVars>>

\* download_stock_video 101: the search has no result; a silent return.
StockNoResult(t) ==
    /\ tasks[t].pc = "fetching" /\ tasks[t].fn = "download_stock_video"
    /\ tasks' = TasksAfterReturn([tasks EXCEPT ![t].called = TRUE], t, "empty")
    /\ UNCHANGED <<shot_list, files, final_video, main_pc, rerun, scene_clips,
                   assembled, presented, timelineVars>>

\* download_stock_video 96-106: the video is downloaded and the file opened.
StockOpen(t) ==
    /\ tasks[t].pc = "fetching" /\ tasks[t].fn = "download_stock_video"
    /\ OpenForWrite(t)
    /\ UNCHANGED <<shot_list, final_video, main_pc, rerun, scene_clips,
                   assembled, presented, timelineVars>>

\* generate_video 118-124: the submission raises (request, status or body).
VideoSubmitFails(t) ==
    /\ tasks[t].pc = "fetching" /\ tasks[t].fn = "generate_video"
    /\ tasks' = TasksAfterFailure([tasks EXCEPT ![t].called = TRUE], t)
    /\ UNCHANGED <<shot_list, files, final_video, main_pc, rerun, scene_clips,
                   assembled, presented, timelineVars>>

\* generate_video 118-126: the job is accepted; the polling loop is entered.
VideoSubmit(t) ==
    /\ tasks[t].pc = "fetching" /\ tasks[t].fn = "generate_video"
    /\ tasks' = [tasks EXCEPT ![t].pc = "polling", ![t].called = TRUE]
    /\ UNCHANGED <<shot_list, files, final_video, main_pc, rerun, scene_clips,
                   assembled, presented, timelineVars>>

\* generate_video 127-131: the poll request itself raises.
VideoPollFails(t) ==
    /\ tasks[t].pc = "polling"
    /\ tasks' = TasksAfterFailure([tasks EXCEPT ![t].status = 0], t)
    /\ UNCHANGED <<shot_list, files, final_video, main_pc, rerun, scene_clips,
                   assembled, presented, timelineVars>>

\* generate_video 127-137: one poll answered with status s.  200 opens the
\* file; otherwise, unless s is 202, raise_for_status() is called, and the
\* loop goes round again whenever that does not raise.
VideoPoll(t, s) ==
    /\ tasks[t].pc = "polling"
    /\ LET ts == [tasks EXCEPT ![t].status = s]
       IN  IF s = 200
           THEN /\ files' = [files EXCEPT ![TargetPath(t)] = "partial"]
                /\ tasks' = [ts EXCEPT ![t].pc = "writing", ![t].wrote = TRUE]
           ELSE IF s # 202 /\ RaisesForStatus(s)
           THEN /\ tasks' = TasksAfterFailure(ts, t)
                /\ UNCHANGED files
           ELSE /\ tasks' = ts
                /\ UNCHANGED files
    /\ UNCHANGED <<shot_list, final_video, main_pc, rerun, scene_clips,
                   assembled, presented, timelineVars>>

\* The write (for audio, the streaming of the chunks) raises part-way: the
\* exception is caught and logged, and the opened file stays as it is.
WriteFails(t) ==
    /\ tasks[t].pc = "writing"
    /\ tasks' = TasksAfterFailure(tasks, t)
    /\ UNCHANGED <<shot_list, files, final_video, main_pc, rerun, scene_clips,
                   assembled, presented, timelineVars>>

\* The write completes and the file is closed with all its bytes.
WriteDone(t) ==
    /\ tasks[t].pc = "writing"
    /\ files' = [files EXCEPT ![TargetPath(t)] = "complete"]
    /\ tasks' = TasksAfterReturn(tasks, t, "ok")
    /\ UNCHANGED <<shot_list, final_video, main_pc, rerun, scene_clips,
                   assembled, presented, timelineVars>>

\* ------------------------------------------------------------- join

\* A join that waits for the first finished future only.
JoinReadyFirst == \E t \in TaskIds : tasks[t].pc = "done"

\* A collection loop that calls future.result(), re-raising a task's exception.
AfterJoinResult(ts) ==
    IF \E t \in 1..Len(ts) : ts[t].outcome = "raised" THEN "error" ELSE "assemble"

\* app.py 77, 90-92: leaving the `with ThreadPoolExecutor` block waits for
\* every submitted future (shutdown(wait=True)), and the as_completed loop
\* yields every future once it is finished.
JoinReady == \A t \in TaskIds : tasks[t].pc = "done"

\* app.py 90-91: the loop only counts the finished futures; it never calls
\* future.result(), so no task's exception reaches the handler.
AfterJoin(ts) == "assemble"

Join ==
    /\ main_pc = "dispatch"
    /\ JoinReady
    /\ main_pc' = AfterJoin(tasks)
    /\ UNCHANGED <<shot_list, files, final_video, tasks, rerun, scene_clips,
                   assembled, presented, timelineVars>>

\* ------------------------------------------------------------- assembler

\* An assembler that takes the scenes in table order.
SortedByNumberNone(sl) == sl

\* sorted(shot_list, key=lambda x: x['scene_number']): a stable sort.
InsertScene(s, x) ==
    LET k == Cardinality({i \in 1..Len(s) : s[i].scene_number <= x.scene_number})
    IN  SubSeq(s, 1, k) \o <<x>> \o SubSeq(s, k + 1, Len(s))

RECURSIVE SortedByNumber(_)
SortedByNumber(sl) ==
    IF sl = <<>> THEN <<>>
    ELSE InsertScene(SortedByNumber(SubSeq(sl, 1, Len(sl) - 1)), sl[Len(sl)])

\* assemble_video 168-173: the video file if it exists, else the image.
VisualOf(fs, n) ==
    IF PathExists(fs, VideoPath(n)) THEN "video"
    ELSE IF PathExists(fs, ImagePath(n)) THEN "image"
    ELSE "none"

\* assemble_video 165-182: one clip per scene that has its audio file and
\* a visual file; the other scenes are skipped.
ClipsOf(scene, fs) ==
    IF ~PathExists(fs, AudioPath(scene.scene_number)) THEN <<>>
    ELSE IF VisualOf(fs, scene.scene_number) = "none" THEN <<>>
    ELSE <<[scene_number |-> scene.scene_number,
            visual |-> VisualOf(fs, scene.scene_number)]>>

RECURSIVE SelectClips(_, _)
SelectClips(sorted, fs) ==
    IF sorted = <<>> THEN <<>>
    ELSE ClipsOf(Head(sorted), fs) \o SelectClips(Tail(sorted), fs)

\* assemble_video 158-182
SceneClips(sl, fs) == SelectClips(SortedByNumber(sl), fs)

\* The files assemble_video opens: the audio of every scene that has one
\* (line 166, before the visual is looked for) and the visual it picks.
LoadedPaths(sl, fs) ==
    {AudioPath(sl[i].scene_number) : i \in {j \in 1..Len(sl) :
                                   PathExists(fs, AudioPath(sl[j].scene_number))}}
    \cup {VideoPath(c.scene_number) :
            c \in {SceneClips(sl, fs)[k] : k \in {j \in 1..Len(SceneClips(sl, fs)) :
                                   SceneClips(sl, fs)[j].visual = "video"}}}
    \cup {ImagePath(c.scene_number) :
            c \in {SceneClips(sl, fs)[k] : k \in {j \in 1..Len(SceneClips(sl, fs)) :
                                   SceneClips(sl, fs)[j].visual = "image"}}}

\* assemble_video 184: "if not scene_clips: return"; nothing is written.
AssembleNoClips ==
    /\ main_pc = "assemble"
    /\ SceneClips(shot_list, files) = <<>>
    /\ scene_clips' = <<>>
    /\ main_pc' = "present"
    /\ UNCHANGED <<shot_list, files, final_video, tasks, rerun, assembled,
                   presented, timelineVars>>

\* assemble_video 186-198: the clips are composed and the output is written.
AssembleWrite ==
    /\ main_pc = "assemble"
    /\ SceneClips(shot_list, files) # <<>>
    /\ scene_clips' = SceneClips(shot_list, files)
    /\ final_video' = "complete"
    /\ assembled' = TRUE
    /\ main_pc' = "present"
    /\ UNCHANGED <<shot_list, files, tasks, rerun, presented, timelineVars>>

\* assemble_video 166-172: opening a file that holds only part of its bytes
\* may raise in the media library; the exception leaves assemble_video and
\* the handler.
AssembleLoadRaises ==
    /\ main_pc = "assemble"
    /\ \E p \in LoadedPaths(shot_list, files) : files[p] = "partial"
    /\ main_pc' = "error"
    /\ UNCHANGED <<shot_list, files, final_video, tasks, rerun, scene_clips,
                   assembled, presented, timelineVars>>

\* app.py 99-103: st.success, then open(final_video_path, 'rb') and st.video.
\* open raises FileNotFoundError when the file does not exist.
Present ==
    /\ main_pc = "present"
    /\ IF final_video = "absent"
       THEN /\ main_pc' = "error"
            /\ UNCHANGED presented
       ELSE /\ main_pc' = "done"
            /\ presented' = TRUE
    /\ UNCHANGED <<shot_list, files, final_video, tasks, rerun, scene_clips,
                   assembled, timelineVars>>

\* ------------------------------------------------------------- Spec

ShotLists(maxLen, maxNum) ==
    {sl \in SeqsUpTo(Scenes(maxNum), maxLen) : Len(sl) >= 1}

\* A fresh working directory: the handler has not run, the asset directories
\* were just created (app.py 13-14) and no output file has been written.
Init ==
    /\ shot_list \in ShotLists(MaxScenes, MaxScenes)
    /\ files = [p \in PathsUpTo(MaxScenes) |-> "absent"]
    /\ final_video = "absent"
    /\ tasks = <<>>
    /\ main_pc = "idle"
    /\ rerun = FALSE
    /\ scene_clips = <<>>
    /\ assembled = FALSE
    /\ presented = FALSE
    /\ transition = 0
    /\ durations = <<>>
    /\ final_clips = <<>>
    /\ video_duration = -1

TaskStep(t) ==
    \/ StartTask(t)
    \/ AudioClientRaises(t)
    \/ AudioRequestFails(t)
    \/ AudioOpen(t)
    \/ ImageRequestFails(t)
    \/ ImageOpen(t)
    \/ StockRequestFails(t)
    \/ StockNoResult(t)
    \/ StockOpen(t)
    \/ VideoSubmitFails(t)
    \/ VideoSubmit(t)
    \/ VideoPollFails(t)
    \/ \E s \in PollStatuses : VideoPoll(t, s)
    \/ WriteFails(t)
    \/ WriteDone(t)

Next ==
    \/ Generate
    \/ \E t \in TaskIds : TaskStep(t)
    \/ Join
    \/ AssembleNoClips
    \/ AssembleWrite
    \/ AssembleLoadRaises
    \/ Present

Spec == Init /\ [][Next]_vars

\* ------------------------------------------------------------- SpecAssemble

\* assemble_video reads scene_number (and the caption text) of a scene and
\* never its visual_type: the shot lists of SpecAssemble differ in their
\* scene numbers only.  They are the lists with unique scene numbers, in
\* every order (lists with a repeated number are among those of Spec).
NumberedLists(maxLen) ==
    {sl \in SeqsUpTo({SceneOf(n, "image") : n \in 1..maxLen}, maxLen) :
        Len(sl) >= 1 /\ UniqueSceneNumbers(sl)}

\* The futures of a dispatch over `sl` that has ended with the files `fs`
\* in place: a task whose target exists skipped it, and a task whose target
\* is absent failed at its request.
EndedTask(b, sl, fs) ==
    IF PathExists(fs, TargetPathOf(b.fn, sl[b.scene].scene_number))
    THEN [b EXCEPT !.pc = "done", !.outcome = "skipped", !.found = TRUE]
    ELSE [b EXCEPT !.pc = "done", !.outcome = "failed", !.called = TRUE]

RECURSIVE DoneTasksFrom(_, _, _)
DoneTasksFrom(sl, fs, i) ==
    IF i > Len(sl) THEN <<>>
    ELSE <<EndedTask(NewTask("generate_audio", i), sl, fs),
           EndedTask(NewTask(VisualFetcher(sl[i].visual_type), i), sl, fs)>>
         \o DoneTasksFrom(sl, fs, i + 1)

DoneTasks(sl, fs) == DoneTasksFrom(sl, fs, 1)

\* The handler is at the call of assemble_video (app.py 97), in a re-run,
\* with any shot list and any set of complete asset files left by earlier
\* runs and edits of the table.
InitAssemble ==
    /\ shot_list \in NumberedLists(MaxShots)
    /\ files \in [PathsUpTo(MaxShots) -> {"absent", "complete"}]
    /\ final_video = "absent"
    /\ tasks = DoneTasks(shot_list, files)
    /\ main_pc = "assemble"
    /\ rerun = TRUE
    /\ scene_clips = <<>>
    /\ assembled = FALSE
    /\ presented = FALSE
    /\ transition = 0
    /\ durations = <<>>
    /\ final_clips = <<>>
    /\ video_duration = -1

NextAssemble ==
    \/ AssembleNoClips
    \/ AssembleWrite

SpecAssemble == InitAssemble /\ [][NextAssemble]_vars

\* ------------------------------------------------------------- SpecTimeline

\* A timeline that starts each clip at the end of the one before it.
ClipStartNoOverlap(prevEnd, T) == prevEnd

\* assemble_video 189: the start of the next clip, given the end of the one
\* before it.
ClipStart(prevEnd, T) == prevEnd - T

\* clip.set_start(t): the clip keeps its duration, so it ends at t + duration.
Placed(start, d) == [start |-> start, end |-> start + d]

RECURSIVE MaxEnd(_)
MaxEnd(clips) ==
    IF Len(clips) = 1 THEN clips[1].end
    ELSE LET m == MaxEnd(Tail(clips))
         IN  IF clips[1].end >= m THEN clips[1].end ELSE m

\* assemble_video 186: final_clips_with_transitions = [scene_clips[0]]
TimelineFirst ==
    /\ final_clips = <<>>
    /\ final_clips' = <<Placed(0, durations[1])>>
    /\ UNCHANGED <<shot_list, files, final_video, tasks, main_pc, rerun,
                   scene_clips, assembled, presented, transition, durations,
                   video_duration>>

\* assemble_video 187-189: one round of the loop.
TimelineNext ==
    /\ final_clips # <<>>
    /\ Len(final_clips) < Len(durations)
    /\ final_clips' =
         Append(final_clips,
                Placed(ClipStart(final_clips[Len(final_clips)].end, transition),
                       durations[Len(final_clips) + 1]))
    /\ UNCHANGED <<shot_list, files, final_video, tasks, main_pc, rerun,
                   scene_clips, assembled, presented, transition, durations,
                   video_duration>>

\* assemble_video 191: CompositeVideoClip(final_clips_with_transitions); its
\* duration is the latest end of its clips.
Compose ==
    /\ Len(final_clips) = Len(durations)
    /\ video_duration = -1
    /\ video_duration' = MaxEnd(final_clips)
    /\ UNCHANGED <<shot_list, files, final_video, tasks, main_pc, rerun,
                   scene_clips, assembled, presented, transition, durations,
                   final_clips>>

\* assemble_video at line 186 with a non-empty scene_clips: scenes 1..n with
\* their audio and video files in place, the clips' durations (their
\* audio's) and TRANSITION_DURATION, in one time unit.
InitTimeline ==
    /\ durations \in {d \in SeqsUpTo(1..MaxDur, MaxClips) : Len(d) >= 1}
    /\ transition \in 0..MaxTransition
    /\ final_clips = <<>>
    /\ video_duration = -1
    /\ shot_list = [i \in 1..Len(durations) |-> SceneOf(i, "video")]
    /\ files = [p \in PathsUpTo(MaxClips) |->
                  IF p.num <= Len(durations) /\ p.ext \in {"mp3", "mp4"}
                  THEN "complete" ELSE "absent"]
    /\ final_video = "absent"
    /\ tasks = DoneTasks(shot_list, files)
    /\ main_pc = "assemble"
    /\ rerun = TRUE
    /\ scene_clips = SceneClips(shot_list, files)
    /\ assembled = FALSE
    /\ presented = FALSE

NextTimeline ==
    \/ TimelineFirst
    \/ TimelineNext
    \/ Compose

SpecTimeline == InitTimeline /\ [][NextTimeline]_vars

\* ------------------------------------------------------------- claims

SceneNumberOf(t) == shot_list[tasks[t].scene].scene_number

Finished(t) == tasks[t].pc = "done"

\* C1: a fetcher called while its target file exists returns without a
\* remote call and without opening the file; so in a run (a re-run after a
\* partial success included) every task that made a remote call or wrote had
\* found its target absent.
C1_Idempotent ==
    \A t \in TaskIds :
        tasks[t].found =>
            /\ ~tasks[t].called
            /\ ~tasks[t].wrote
            /\ Finished(t)
            /\ tasks[t].outcome = "skipped"

\* C1's case: in a re-run, one task skips its existing file while another
\* task of the same run fetches its missing one.
C1_Witness ==
    /\ rerun
    /\ \E t, u \in TaskIds :
        /\ tasks[t].found /\ tasks[t].outcome = "skipped"
        /\ ~tasks[u].found /\ tasks[u].called

\* C2: with unique scene numbers, a fetcher that found its target absent and
\* failed leaves the target absent.
C2_FailedFetchLeavesNoFile ==
    UniqueSceneNumbers(shot_list) =>
        \A t \in TaskIds :
            (Finished(t) /\ tasks[t].outcome = "failed" /\ ~tasks[t].found)
                => files[TargetPath(t)] = "absent"

\* C3: a task's failure changes no other task, the dispatch step never ends
\* in an error, and once it has ended every task has run to an end of its
\* own (none was cancelled or left unfinished).
OwnEnds == {"skipped", "ok", "failed", "raised", "empty"}

FailsNow(t) ==
    /\ tasks[t].outcome = "pending"
    /\ tasks'[t].outcome \in {"failed", "raised"}

C3_FailureIsolated ==
    [][/\ \A t \in TaskIds :
            (Len(tasks') = Len(tasks) /\ FailsNow(t))
                => \A u \in TaskIds \ {t} : tasks'[u] = tasks[u]
       /\ main_pc = "dispatch" => main_pc' \in {"dispatch", "assemble"}
       /\ main_pc' \in {"assemble", "present"}
            => \A t \in 1..Len(tasks') :
                 tasks'[t].pc = "done" /\ tasks'[t].outcome \in OwnEnds]_vars

\* C3's case: the dispatch ended with a failed task, a task whose exception
\* left the fetcher, and a sibling that succeeded.
C3_Witness ==
    /\ main_pc = "assemble"
    /\ \E t, u, v \in TaskIds :
        /\ tasks[t].outcome = "failed"
        /\ tasks[u].outcome = "raised"
        /\ tasks[v].outcome = "ok"

\* C4: from the call of assemble_video on, no submitted task is queued or
\* running.
C4_HardJoin ==
    main_pc \notin {"idle", "dispatch"} =>
        \A t \in TaskIds : tasks[t].pc # "queued" /\ ~Running(t)

\* C4's case: assembly is about to start after four tasks ended in
\* different ways.
C4_Witness ==
    /\ main_pc = "assemble"
    /\ Len(tasks) = 4
    /\ Cardinality({tasks[t].outcome : t \in TaskIds}) >= 3

\* C5: two tasks per scene, the audio task and then the visual task, whose
\* fetcher is generate_video, generate_image or download_stock_video for
\* visual_type video, image or stock_footage.
C5_TwoTasksPerScene ==
    main_pc # "idle" =>
        /\ Len(tasks) = 2 * Len(shot_list)
        /\ \A i \in 1..Len(shot_list) :
            /\ {t \in TaskIds : tasks[t].scene = i} = {2 * i - 1, 2 * i}
            /\ tasks[2 * i - 1].fn = "generate_audio"
            /\ tasks[2 * i].fn # "generate_audio"
            /\ shot_list[i].visual_type = "video"
                 => tasks[2 * i].fn = "generate_video"
            /\ shot_list[i].visual_type = "image"
                 => tasks[2 * i].fn = "generate_image"
            /\ shot_list[i].visual_type = "stock_footage"
                 => tasks[2 * i].fn = "download_stock_video"

\* C5's case: a two-scene list with two different visual types is submitted.
C5_Witness ==
    /\ main_pc = "dispatch"
    /\ Len(shot_list) = 2
    /\ shot_list[1].visual_type = "stock_footage"
    /\ shot_list[2].visual_type = "image"
    /\ Len(tasks) = 4

\* C6: every poll answered 202 is followed by another poll; a poll answered
\* 200 opens the result file and leaves the loop; a poll answered with any
\* other status outside 2xx ends the task as failed, with nothing written.
C6_PollingProtocol ==
    [][\A t \in TaskIds :
        (Len(tasks') = Len(tasks) /\ tasks[t].pc = "polling" /\ tasks'[t] # tasks[t])
          => LET s == tasks'[t].status
             IN  /\ s = 202 => tasks'[t].pc = "polling"
                 /\ s = 200 => tasks'[t].pc = "writing" /\ tasks'[t].wrote
                 /\ (s # 202 /\ ~(200 <= s /\ s < 300))
                      => /\ tasks'[t].pc = "done"
                         /\ tasks'[t].outcome = "failed"
                         /\ ~tasks'[t].wrote]_vars

\* C8: when the handler has ended and no scene has an audio file, nothing
\* was written, the handler did not raise and it presented no video.
C8_EmptyAssemblyIsNoOp ==
    (/\ main_pc \in {"done", "error"}
     /\ \A i \in 1..Len(shot_list) :
            ~PathExists(files, AudioPath(shot_list[i].scene_number)))
        => (~assembled /\ main_pc = "done" /\ ~presented)

\* C10: two tasks of one dispatch with the same target path belong to two
\* scenes with the same scene_number; with unique scene numbers all target
\* paths differ and no file is opened for writing by two tasks.
C10_DistinctTargets ==
    \A t, u \in TaskIds :
        (t # u /\ TargetPath(t) = TargetPath(u)) =>
            /\ tasks[t].scene # tasks[u].scene
            /\ SceneNumberOf(t) = SceneNumberOf(u)
            /\ ~UniqueSceneNumbers(shot_list)

\* C10's case: with unique scene numbers, the visual tasks of two scenes
\* are writing their mp4 files at the same time.
C10_Witness ==
    /\ UniqueSceneNumbers(shot_list)
    /\ \E t, u \in TaskIds :
        /\ tasks[t].scene # tasks[u].scene
        /\ tasks[t].pc = "writing" /\ tasks[u].pc = "writing"
        /\ TargetPath(t).ext = "mp4" /\ TargetPath(u).ext = "mp4"

\* ------------------------------------------------------------- claims, assembler

RECURSIVE NumbersOf(_)
NumbersOf(clips) ==
    IF clips = <<>> THEN <<>>
    ELSE <<Head(clips).scene_number>> \o NumbersOf(Tail(clips))

ListNumbers == {shot_list[i].scene_number : i \in 1..Len(shot_list)}

HasAudio(n) == files[AudioPath(n)] # "absent"

HasVisual(n) == files[VideoPath(n)] # "absent" \/ files[ImagePath(n)] # "absent"

\* C7: for a shot list with unique scene numbers, once assemble_video has
\* returned, the assembled scenes are in strictly ascending scene_number
\* order and are exactly the scenes with an audio file and a visual file;
\* when every scene with an audio file has a visual file, they are exactly
\* the scenes with an audio file.
C7_AssembledOrder ==
    (main_pc = "present" /\ UniqueSceneNumbers(shot_list)) =>
        LET nums == NumbersOf(scene_clips)
        IN  /\ \A i, j \in 1..Len(nums) : i < j => nums[i] < nums[j]
            /\ {nums[i] : i \in 1..Len(nums)} =
                 {n \in ListNumbers : HasAudio(n) /\ HasVisual(n)}
            /\ (\A n \in ListNumbers : HasAudio(n) => HasVisual(n))
                 => {nums[i] : i \in 1..Len(nums)} = {n \in ListNumbers : HasAudio(n)}
            /\ assembled <=> nums # <<>>

\* C7's case: the shot list [3, 1, 2] with complete assets is assembled
\* as [1, 2, 3].
C7_Witness ==
    /\ main_pc = "present"
    /\ Len(shot_list) = 3
    /\ shot_list[1].scene_number = 3
    /\ shot_list[2].scene_number = 1
    /\ shot_list[3].scene_number = 2
    /\ NumbersOf(scene_clips) = <<1, 2, 3>>

\* ------------------------------------------------------------- claims, timeline

RECURSIVE SumOf(_)
SumOf(d) == IF d = <<>> THEN 0 ELSE Head(d) + SumOf(Tail(d))

Composed == video_duration # -1

\* C9 as stated: the composed duration is d_1 + ... + d_n - (n - 1) x T for
\* every sequence of durations and every T >= 0.
C9_DurationFormula ==
    Composed =>
        video_duration = SumOf(durations) - (Len(durations) - 1) * transition

\* C9 amended: the formula holds when every scene after the first lasts at
\* least T; in every case the composed duration is at least the formula's
\* value and is the latest end among the clips.
C9_DurationFormulaAmended ==
    Composed =>
        /\ (\A i \in 2..Len(durations) : durations[i] >= transition)
             => video_duration =
                  SumOf(durations) - (Len(durations) - 1) * transition
        /\ video_duration >=
             SumOf(durations) - (Len(durations) - 1) * transition
        /\ \E i \in 1..Len(final_clips) : video_duration = final_clips[i].end
        /\ \A i \in 1..Len(final_clips) : video_duration >= final_clips[i].end

\* C9's case: three clips composed with a cross-fade longer than the first
\* clip and no longer than the later ones.
C9_Witness ==
    /\ Composed
    /\ Len(durations) = 3
    /\ transition > durations[1]
    /\ \A i \in 2..3 : durations[i] >= transition
    /\ video_duration = SumOf(durations) - 2 * transition

====
